---- MODULE Spec2Model ----
(***************************************************************************)
(* State-machine model of the AI video tool (ai_video_tool_openai.py and   *)
(* core/*.py): the main window's handlers, the image-generation worker     *)
(* (ProcessingThread.process_ai_images with the generator's retry loop)    *)
(* and the B-roll worker (ProcessingThread.process_broll).                 *)
(*                                                                         *)
(* Abstractions.  Durations and timestamps are exact rationals <<num,den>> *)
(* (the code uses binary floating point; rounding is not modelled).  Paths *)
(* are abstracted to scene numbers / clip identifiers.  The external       *)
(* collaborators (image service, downloader, ffmpeg, keyring, file system) *)
(* are nondeterministic choices over the outcomes they can produce.        *)
(***************************************************************************)
EXTENDS Integers, Sequences, FiniteSets, TLC

\* ---------------------------------------------------------------- bounds
MaxSegments == 3
MaxDuration == 2
MaxWords == 1
MaxClips == 2
MaxScriptWords == 5
MaxSplit == 3
MaxKeys == 2

\* ------------------------------------------------------ program constants
max_retries == 3
RateLimitStep == 30
RateLimitCap == 120
FixedDelay == 5
FfmpegClipThreshold == 10

NoKey == 0
TheKey == 1

VARIABLES
    \* ---- AIVideoTool (main window)
    script_path,        \* TRUE when a script file has been chosen
    voice_path,         \* TRUE when a voiceover file has been chosen
    broll_paths,        \* sequence of chosen B-roll clips
    intro_paths,        \* sequence of chosen intro clips
    generate_btn,       \* generate_btn.isEnabled()
    cancel_btn,         \* cancel_btn.isEnabled()
    broll_btn,          \* broll_btn.isEnabled()
    req,                \* the latest generate_images request and its outcome
    \* ---- credential stores (APIKeyManager)
    keyring_key,
    file_key,
    env_key,
    \* ---- environment
    ffmpeg_present,     \* an ffmpeg executable can be found
    fn_call,            \* the latest direct call of a function: op, args, out
    \* ---- ProcessingThread("ai_images")
    ai_pc,              \* position of the worker
    ai_params,          \* params dict given to the thread
    is_cancelled,       \* ProcessingThread.is_cancelled of the ai thread
    ai_finished_sig,    \* finished_processing emitted, slot not yet run
    ai_error,           \* message of error_occurred ("none" when not emitted)
    duration,           \* value returned by get_duration
    timestamps,         \* value returned by generate_timestamps
    script_words,       \* number of whitespace-delimited words of the script
    seg_i,              \* loop index i of the generation loop (0-based)
    generated_images,   \* the list generated_images
    failed_segs,        \* scenes whose generate_and_save_image call raised
    cancel_seen,        \* the loop ended through the is_cancelled break
    loop_entered,       \* the run reached the generation loop
    progress,           \* the latest value emitted on progress_updated
    metadata_writes,    \* number of times generation_metadata.json was written
    metadata,           \* content of generation_metadata.json
    image_files,        \* scenes with an image file on disk
    prompt_files,       \* scenes with a prompt record on disk
    final_video,        \* final_video.mp4: written, its length, the audio's
    clip_files,         \* scene_NNN.mp4 files: clip number, scene of the image
    ext_calls,          \* kinds of external call made since the latest request
    \* ---- generate_and_save_image (current call)
    attempt,            \* loop variable attempt (0-based)
    calls,              \* invocations of the image collaborator in this call
    delays,             \* sleeps made by this call, in order
    wait_time,          \* argument of the pending time.sleep
    errs,               \* exceptions caught by this call's failed attempts
    raised,             \* exception that left generate_and_save_image
    call_result,        \* "none" | "running" | "returned" | "raised"
    \* ---- ProcessingThread("broll")
    broll_pc,
    broll_params,
    broll_finished_sig,
    broll_error,
    broll_output,       \* clip sequence written to broll_reorganized.mp4
    broll_ext,          \* kinds of external call made by the B-roll run
    concat_path,        \* the path the concatenation exported to
    overlay_input       \* the video_path given to add_audio_to_video

fileVars == <<script_path, voice_path, broll_paths, intro_paths>>
btnVars == <<generate_btn, cancel_btn, broll_btn>>
guiVars == <<fileVars, btnVars, req>>
credVars == <<keyring_key, file_key, env_key>>
envVars == <<ffmpeg_present, fn_call>>
aiInputs == <<ai_params, duration, timestamps, script_words>>
aiLoop == <<seg_i, generated_images, failed_segs, cancel_seen, loop_entered,
           progress>>
aiDisk == <<metadata_writes, metadata, image_files, prompt_files,
           final_video, clip_files>>
aiRunVars == <<ai_pc, is_cancelled, ai_finished_sig, ai_error, ext_calls,
               aiInputs, aiLoop, aiDisk>>
callVars == <<attempt, calls, delays, wait_time, errs, raised, call_result>>
brollVars == <<broll_pc, broll_params, broll_finished_sig, broll_error,
               broll_output, broll_ext, concat_path, overlay_input>>
vars == <<guiVars, credVars, envVars, aiRunVars, callVars, brollVars>>

\* ------------------------------------------------------------- rationals
Rat(n, d) == <<n, d>>
RatMulInt(k, r) == <<k * r[1], r[2]>>
RatSub(a, b) == <<a[1] * b[2] - b[1] * a[2], a[2] * b[2]>>
RatEq(a, b) == a[1] * b[2] = b[1] * a[2]
RatLeq(a, b) == a[1] * b[2] <= b[1] * a[2]
RatLt(a, b) == a[1] * b[2] < b[1] * a[2]
RatAdd(a, b) == <<a[1] * b[2] + b[1] * a[2], a[2] * b[2]>>
RatZero == Rat(0, 1)

Min(a, b) == IF a <= b THEN a ELSE b

\* ------------------------------------------------------------ input sets
\* text of the image-count field: ok = int() parses it, n = its value
CountInputs == {[ok |-> FALSE, n |-> 0]} \cup
               {[ok |-> TRUE, n |-> k] : k \in (-1)..MaxSegments}
BrollChoices == {[j \in 1..k |-> j] : k \in 1..MaxClips}
IntroChoices == {<<-1>>}
Stages == {"generate", "download", "prompt_write"}
\* the extensions get_duration tells apart
Extensions == {"wav", "mp3", "m4a", "other"}
\* file sizes are counted in units of SizeUnit bytes
SizeUnit == 32000
\* os.path.getsize raises
Unreadable == -1
FileSizes == {Unreadable} \cup 0..(MaxDuration \div 2)
\* wave.open raises
NoHeader == -1
\* an audio file as get_duration sees it: whether it exists, its
\* extension, the duration its WAV header gives, the duration the decoder
\* gives when it succeeds, its size
AudioFiles == [exists : BOOLEAN, ext : Extensions,
               wav_d : {NoHeader} \cup 0..MaxDuration,
               dec_d : 0..MaxDuration, size : FileSizes]

\* ------------------------------------------------------------ exceptions
NoError == [attempt |-> 0, rate |-> FALSE]
\* Exception("Failed to generate image after all retries")
AllRetriesError == [attempt |-> -1, rate |-> FALSE]
\* the exception raised inside attempt number a (1-based); rate = its
\* message contains "rate_limit"
AttemptError(a, rate) == [attempt |-> a, rate |-> rate]

\* ------------------------------------------------------- APIKeyManager
\* the keys a user may store
Keys == 1..MaxKeys

get_api_key_from_EnvFirst(keyring_ok, file_ok) ==
    IF env_key # NoKey THEN env_key
    ELSE IF keyring_ok /\ keyring_key # NoKey THEN keyring_key
    ELSE IF file_ok /\ file_key # NoKey THEN file_key
    ELSE NoKey

\* get_api_key when keyring.get_password works (keyring_ok) or raises, and
\* the encrypted file can be read and decrypted (file_ok) or cannot
get_api_key_from(keyring_ok, file_ok) ==
    IF keyring_ok /\ keyring_key # NoKey THEN keyring_key
    ELSE IF file_ok /\ file_key # NoKey THEN file_key
    ELSE IF env_key # NoKey THEN env_key
    ELSE NoKey

get_api_key(keyring_ok) == get_api_key_from(keyring_ok, TRUE)

has_api_key(keyring_ok) == get_api_key(keyring_ok) # NoKey

\* ------------------------------------------------------- AudioProcessor
AssumedBitrate_Uniform(ext) == 128 * 1000

\* lines 92-100: the bitrate assumed for the extension
AssumedBitrate(ext) == IF ext = "m4a" THEN 256 * 1000 ELSE 128 * 1000

\* (file_size * 8) / bitrate; exact for sizes that are whole units
estimated_duration(f) == (f.size * SizeUnit * 8) \div AssumedBitrate(f.ext)

get_duration_DecoderFirst(f, ffmpeg_available, decoder_ok) ==
    IF ~f.exists
        THEN [raised |-> "FileNotFoundError", value |-> 0, decoder |-> FALSE,
              method |-> "none"]
    ELSE IF ffmpeg_available /\ decoder_ok
        THEN [raised |-> "none", value |-> f.dec_d, decoder |-> TRUE,
              method |-> "decoder"]
    ELSE IF f.ext = "wav" /\ f.wav_d # NoHeader
        THEN [raised |-> "none", value |-> f.wav_d,
              decoder |-> ffmpeg_available, method |-> "wav"]
    ELSE IF f.size # Unreadable
        THEN [raised |-> "none", value |-> estimated_duration(f),
              decoder |-> ffmpeg_available, method |-> "estimate"]
    ELSE [raised |-> "RuntimeError", value |-> 0,
          decoder |-> ffmpeg_available, method |-> "none"]

get_duration(f, ffmpeg_available, decoder_ok) ==
    IF ~f.exists
        THEN [raised |-> "FileNotFoundError", value |-> 0, decoder |-> FALSE,
              method |-> "none"]
    ELSE IF f.ext = "wav" /\ f.wav_d # NoHeader
        THEN [raised |-> "none", value |-> f.wav_d, decoder |-> FALSE,
              method |-> "wav"]
    ELSE IF ffmpeg_available /\ decoder_ok
        THEN [raised |-> "none", value |-> f.dec_d, decoder |-> TRUE,
              method |-> "decoder"]
    ELSE IF f.size # Unreadable
        THEN [raised |-> "none", value |-> estimated_duration(f),
              decoder |-> ffmpeg_available, method |-> "estimate"]
    ELSE [raised |-> "RuntimeError", value |-> 0,
          decoder |-> ffmpeg_available, method |-> "none"]

generate_timestamps_from_one(total_duration, num_segments) ==
    IF num_segments <= 0
        THEN [raised |-> "ValueError", value |-> <<>>]
        ELSE LET segment_duration == Rat(total_duration, num_segments)
             IN [raised |-> "none",
                 value |-> [k \in 1..num_segments |->
                               RatMulInt(k, segment_duration)]]

generate_timestamps(total_duration, num_segments) ==
    IF num_segments <= 0
        THEN [raised |-> "ValueError", value |-> <<>>]
        ELSE LET segment_duration == Rat(total_duration, num_segments)
             IN [raised |-> "none",
                 value |-> [k \in 1..num_segments |->
                               RatMulInt(k - 1, segment_duration)]]

\* ----------------------------------------------------- ProcessingThread
split_script_DropRemainder(nwords, num_segments) ==
    LET words == [j \in 1..nwords |-> j]
        words_per_segment == nwords \div num_segments
    IN [k \in 1..num_segments |->
          LET start_idx == (k - 1) * words_per_segment
          IN SubSeq(words, start_idx + 1, start_idx + words_per_segment)]

\* _split_script on a script of nwords words (word j is the number j); a
\* segment is the sequence of the words joined into it
split_script(nwords, num_segments) ==
    LET words == [j \in 1..nwords |-> j]
        words_per_segment == nwords \div num_segments
    IN [k \in 1..num_segments |->
          LET start_idx == (k - 1) * words_per_segment
          IN IF k = num_segments
                THEN SubSeq(words, start_idx + 1, nwords)
                ELSE SubSeq(words, start_idx + 1, start_idx + words_per_segment)]

\* ------------------------------------------------ OpenAIImageGenerator
\* for attempt in range(max_retries): is there an iteration after a?
HasNextAttempt_OneMore(a) == a + 1 <= max_retries

HasNextAttempt_OneLess(a) == a + 2 < max_retries

HasNextAttempt(a) == a + 1 < max_retries

\* wait_time of the except branch, a = the loop variable attempt
BackoffDelay_ZeroBased(a, rate) ==
    IF rate THEN Min(RateLimitStep * a, RateLimitCap) ELSE FixedDelay

BackoffDelay(a, rate) ==
    IF rate THEN Min(RateLimitStep * (a + 1), RateLimitCap) ELSE FixedDelay

\* the except branch re-raises instead of sleeping
ReRaises(a, rate) == ~rate /\ a = max_retries - 1

\* ---------------------------------------------------------- AIVideoTool
\* generate_images: int(self.image_count.text()) and the positivity check
ValidImageCount(inp) == inp.ok /\ inp.n > 0

\* ------------------------------------------------------------------ Init
NoCall == [op |-> "none", args |-> <<>>, out |-> <<>>]
NoRequest == [ok |-> FALSE, n |-> 0, files |-> FALSE, key |-> FALSE,
              outcome |-> "none"]
NoParams == [image_count |-> 0, clips |-> FALSE, full_video |-> FALSE]
NoMetadata == [images |-> <<>>, total_duration |-> 0]
NoVideo == [written |-> FALSE, length |-> <<0, 1>>, audio |-> 0]
NoBrollParams == [broll_paths |-> <<>>, intro_paths |-> <<>>,
                  voiceover |-> FALSE, sync_duration |-> FALSE,
                  overlay_audio |-> FALSE]

\* the locals of process_ai_images before the function has assigned them
AiLocalsReset ==
    /\ duration' = 0
    /\ timestamps' = <<>>
    /\ script_words' = 0
    /\ seg_i' = 0
    /\ generated_images' = <<>>
    /\ failed_segs' = {}
    /\ cancel_seen' = FALSE
    /\ loop_entered' = FALSE
    /\ progress' = 0

\* the locals of generate_and_save_image before a call
CallReset ==
    /\ attempt' = 0
    /\ calls' = 0
    /\ delays' = <<>>
    /\ wait_time' = 0
    /\ errs' = <<>>
    /\ raised' = NoError
    /\ call_result' = "none"

\* a fresh, timestamp-named session output directory
AiDiskReset ==
    /\ metadata_writes' = 0
    /\ metadata' = NoMetadata
    /\ image_files' = {}
    /\ prompt_files' = {}
    /\ final_video' = NoVideo
    /\ clip_files' = {}

\* the window's own state, the workers and the environment apart from the
\* credential stores
InitRest ==
    /\ script_path = FALSE
    /\ voice_path = FALSE
    /\ broll_paths = <<>>
    /\ intro_paths = <<>>
    /\ generate_btn = TRUE
    /\ cancel_btn = FALSE
    /\ broll_btn = TRUE
    /\ req = NoRequest
    /\ ffmpeg_present \in BOOLEAN
    /\ fn_call = NoCall
    /\ ai_pc = "idle"
    /\ ai_params = NoParams
    /\ is_cancelled = FALSE
    /\ ai_finished_sig = FALSE
    /\ ai_error = "none"
    /\ duration = 0
    /\ timestamps = <<>>
    /\ script_words = 0
    /\ seg_i = 0
    /\ generated_images = <<>>
    /\ failed_segs = {}
    /\ cancel_seen = FALSE
    /\ loop_entered = FALSE
    /\ progress = 0
    /\ metadata_writes = 0
    /\ metadata = NoMetadata
    /\ image_files = {}
    /\ prompt_files = {}
    /\ final_video = NoVideo
    /\ clip_files = {}
    /\ ext_calls = {}
    /\ attempt = 0
    /\ calls = 0
    /\ delays = <<>>
    /\ wait_time = 0
    /\ errs = <<>>
    /\ raised = NoError
    /\ call_result = "none"
    /\ broll_pc = "idle"
    /\ broll_params = NoBrollParams
    /\ broll_finished_sig = FALSE
    /\ broll_error = "none"
    /\ broll_output = <<>>
    /\ broll_ext = {}
    /\ concat_path = "none"
    /\ overlay_input = "none"

Init ==
    /\ keyring_key \in {NoKey, TheKey}
    /\ file_key = NoKey
    /\ env_key = NoKey
    /\ InitRest

\* QThread.isRunning()
AiRunning == ai_pc \notin {"idle", "done"}
BrollRunning == broll_pc \notin {"idle", "done"}

\* ------------------------------------------------- AIVideoTool handlers
choose_script_file ==
    /\ script_path' = TRUE
    /\ UNCHANGED <<voice_path, broll_paths, intro_paths, btnVars, req>>
    /\ UNCHANGED <<credVars, envVars, aiRunVars, callVars, brollVars>>

choose_voiceover_file ==
    /\ voice_path' = TRUE
    /\ UNCHANGED <<script_path, broll_paths, intro_paths, btnVars, req>>
    /\ UNCHANGED <<credVars, envVars, aiRunVars, callVars, brollVars>>

choose_broll_files_in(Choices) ==
    /\ \E file_paths \in Choices : broll_paths' = file_paths
    /\ UNCHANGED <<script_path, voice_path, intro_paths, btnVars, req>>
    /\ UNCHANGED <<credVars, envVars, aiRunVars, callVars, brollVars>>

choose_broll_files == choose_broll_files_in(BrollChoices)

choose_intro_files ==
    /\ \E file_paths \in IntroChoices : intro_paths' = file_paths
    /\ UNCHANGED <<script_path, voice_path, broll_paths, btnVars, req>>
    /\ UNCHANGED <<credVars, envVars, aiRunVars, callVars, brollVars>>

\* _set_api_key with ok and a non-empty key: APIKeyManager.set_api_key
set_api_key ==
    /\ \E keyring_ok \in BOOLEAN, file_ok \in BOOLEAN :
         IF keyring_ok
            THEN keyring_key' = TheKey /\ UNCHANGED file_key
            ELSE /\ file_key' = IF file_ok THEN TheKey ELSE file_key
                 /\ UNCHANGED keyring_key
    /\ UNCHANGED env_key
    /\ UNCHANGED <<guiVars, envVars, aiRunVars, callVars, brollVars>>

\* what generate_images saw: the parsed count, whether both files are
\* chosen, whether a key was found
Request(inp, key, outcome) ==
    [ok |-> inp.ok, n |-> inp.n, files |-> script_path /\ voice_path,
     key |-> key, outcome |-> outcome]

\* a generate_images call that returns after a message box (or a declined
\* confirmation) without starting a thread
RejectRequest(inp, key, title) ==
    /\ req' = Request(inp, key, title)
    /\ ext_calls' = {}
    /\ UNCHANGED <<fileVars, btnVars>>
    /\ UNCHANGED <<ai_pc, is_cancelled, ai_finished_sig, ai_error, aiInputs,
                   aiLoop, aiDisk>>
    /\ UNCHANGED <<credVars, envVars, callVars, brollVars>>

\* generate_images with the image-count text drawn from Counts
generate_images_in(Counts) ==
    /\ generate_btn
    /\ \E inp \in Counts, keyring_ok \in BOOLEAN, character_desc \in BOOLEAN,
          reply \in BOOLEAN, clips \in BOOLEAN, full_video \in BOOLEAN :
         LET key == has_api_key(keyring_ok)
         IN IF ~(script_path /\ voice_path)
               THEN RejectRequest(inp, key, "Missing Files")
            ELSE IF ~key
               THEN RejectRequest(inp, key, "No API Key")
            ELSE IF ~ValidImageCount(inp)
               THEN RejectRequest(inp, key, "Invalid Input")
            ELSE IF ~character_desc
               THEN RejectRequest(inp, key, "Missing Description")
            ELSE IF ~reply
               THEN RejectRequest(inp, key, "Declined")
            ELSE /\ generate_btn' = FALSE
                 /\ cancel_btn' = TRUE
                 /\ req' = Request(inp, key, "started")
                 /\ ai_params' = [image_count |-> inp.n, clips |-> clips,
                                  full_video |-> full_video]
                 /\ ai_pc' = "start"
                 /\ is_cancelled' = FALSE
                 /\ ai_finished_sig' = FALSE
                 /\ ai_error' = "none"
                 /\ ext_calls' = {}
                 /\ AiLocalsReset
                 /\ AiDiskReset
                 /\ CallReset
                 /\ UNCHANGED <<fileVars, broll_btn>>
                 /\ UNCHANGED <<credVars, envVars, brollVars>>

generate_images == generate_images_in(CountInputs)

cancel_generation ==
    /\ cancel_btn
    /\ is_cancelled' = IF AiRunning THEN TRUE ELSE is_cancelled
    /\ UNCHANGED <<ai_pc, ai_finished_sig, ai_error, ext_calls, aiInputs,
                   aiLoop, aiDisk>>
    /\ UNCHANGED <<guiVars, credVars, envVars, callVars, brollVars>>

\* slot of ai_thread.finished_processing
ai_generation_finished ==
    /\ ai_finished_sig
    /\ ai_finished_sig' = FALSE
    /\ generate_btn' = TRUE
    /\ cancel_btn' = FALSE
    /\ UNCHANGED <<fileVars, broll_btn, req>>
    /\ UNCHANGED <<ai_pc, is_cancelled, ai_error, ext_calls, aiInputs,
                   aiLoop, aiDisk>>
    /\ UNCHANGED <<credVars, envVars, callVars, brollVars>>

reorganize_broll ==
    /\ broll_btn
    /\ IF broll_paths = <<>> \/ ~ffmpeg_present
          \* "Missing Files" or "FFmpeg Required" message box, return
          THEN UNCHANGED <<broll_btn, brollVars>>
          ELSE \E voiceover \in BOOLEAN, sync_duration \in BOOLEAN,
                  overlay_audio \in BOOLEAN :
                 /\ broll_btn' = FALSE
                 /\ broll_params' = [broll_paths |-> broll_paths,
                                     intro_paths |-> intro_paths,
                                     voiceover |-> voiceover,
                                     sync_duration |-> sync_duration,
                                     overlay_audio |-> overlay_audio]
                 /\ broll_pc' = "start"
                 /\ broll_finished_sig' = FALSE
                 /\ broll_error' = "none"
                 /\ broll_output' = <<>>
                 /\ broll_ext' = {}
                 /\ concat_path' = "none"
                 /\ overlay_input' = "none"
    /\ UNCHANGED <<fileVars, generate_btn, cancel_btn, req>>
    /\ UNCHANGED <<credVars, envVars, aiRunVars, callVars>>

\* slot of broll_thread.finished_processing
broll_finished ==
    /\ broll_finished_sig
    /\ broll_finished_sig' = FALSE
    /\ broll_btn' = TRUE
    /\ UNCHANGED <<fileVars, generate_btn, cancel_btn, req>>
    /\ UNCHANGED <<broll_pc, broll_params, broll_error, broll_output,
                   broll_ext, concat_path, overlay_input>>
    /\ UNCHANGED <<credVars, envVars, aiRunVars, callVars>>

\* --------------------------------- ProcessingThread.process_ai_images
AiRaise_NoFinally(msg) ==
    /\ ai_error' = msg
    /\ ai_pc' = "done"

\* an exception leaves process_ai_images: run() emits error_occurred and
\* goes on to its finally clause
AiRaise(msg) ==
    /\ ai_error' = msg
    /\ ai_pc' = "finally"

\* lines 64-87: credential check, construction of the processors
ai_init ==
    /\ ai_pc = "start"
    /\ \E keyring_ok \in BOOLEAN :
         IF get_api_key(keyring_ok) = NoKey
            THEN /\ AiRaise("No API key found")
                 /\ UNCHANGED ext_calls
            ELSE /\ ai_pc' = "analyze"
                 \* AudioProcessor() runs "ffmpeg -version"
                 /\ ext_calls' = ext_calls \cup {"ffmpeg_probe"}
                 /\ UNCHANGED ai_error
    /\ UNCHANGED <<is_cancelled, ai_finished_sig, aiInputs, aiLoop, aiDisk>>
    /\ UNCHANGED <<guiVars, credVars, envVars, callVars, brollVars>>

\* lines 89-100: read the script, get the duration, plan the segments;
\* the script has a number of words in Words, the audio file is in Files
ai_analyze_in(Words, Files) ==
    /\ ai_pc = "analyze"
    /\ \E script_ok \in BOOLEAN, nwords \in Words, f \in Files,
          decoder_ok \in BOOLEAN :
         LET gd == get_duration(f, ffmpeg_present, decoder_ok)
             ts == generate_timestamps(gd.value, ai_params.image_count)
             ext == ext_calls \cup (IF gd.decoder THEN {"decoder"} ELSE {})
         IN IF ~script_ok
               THEN /\ AiRaise("FileNotFoundError")
                    /\ UNCHANGED <<duration, timestamps, script_words,
                                   loop_entered, ext_calls>>
            ELSE IF gd.raised # "none"
               THEN /\ AiRaise(gd.raised)
                    /\ script_words' = nwords
                    /\ ext_calls' = ext
                    /\ UNCHANGED <<duration, timestamps, loop_entered>>
            ELSE IF ts.raised # "none"
               THEN /\ AiRaise(ts.raised)
                    /\ script_words' = nwords
                    /\ duration' = gd.value
                    /\ ext_calls' = ext
                    /\ UNCHANGED <<timestamps, loop_entered>>
            ELSE /\ script_words' = nwords
                 /\ duration' = gd.value
                 /\ timestamps' = ts.value
                 /\ ext_calls' = ext
                 /\ loop_entered' = TRUE
                 /\ ai_pc' = "loop"
                 /\ UNCHANGED ai_error
    /\ UNCHANGED <<ai_params, is_cancelled, ai_finished_sig, seg_i,
                   generated_images, failed_segs, cancel_seen, progress,
                   aiDisk>>
    /\ UNCHANGED <<guiVars, credVars, envVars, callVars, brollVars>>

ai_analyze == ai_analyze_in(0..MaxWords, AudioFiles)

\* number of iterations of zip(script_segments, timestamps)
LoopLength ==
    Min(Len(split_script(script_words, ai_params.image_count)), Len(timestamps))

\* entry into generate_and_save_image
CallStart ==
    /\ ai_pc' = "attempt"
    /\ attempt' = 0
    /\ calls' = 0
    /\ delays' = <<>>
    /\ wait_time' = 0
    /\ errs' = <<>>
    /\ raised' = NoError
    /\ call_result' = "running"

ai_loop_head_NoCancelCheck ==
    /\ ai_pc = "loop"
    /\ IF seg_i >= LoopLength
          THEN /\ ai_pc' = "metadata"
               /\ UNCHANGED <<cancel_seen, callVars>>
          ELSE /\ CallStart
               /\ UNCHANGED cancel_seen
    /\ UNCHANGED <<is_cancelled, ai_finished_sig, ai_error, ext_calls,
                   aiInputs, seg_i, generated_images, failed_segs,
                   loop_entered, progress, aiDisk>>
    /\ UNCHANGED <<guiVars, credVars, envVars, brollVars>>

ai_loop_head_CancelReturns ==
    /\ ai_pc = "loop"
    /\ IF seg_i >= LoopLength
          THEN /\ ai_pc' = "metadata"
               /\ UNCHANGED <<cancel_seen, callVars>>
       ELSE IF is_cancelled
          THEN /\ ai_pc' = "finally"
               /\ cancel_seen' = TRUE
               /\ UNCHANGED callVars
          ELSE /\ CallStart
               /\ UNCHANGED cancel_seen
    /\ UNCHANGED <<is_cancelled, ai_finished_sig, ai_error, ext_calls,
                   aiInputs, seg_i, generated_images, failed_segs,
                   loop_entered, progress, aiDisk>>
    /\ UNCHANGED <<guiVars, credVars, envVars, brollVars>>

\* lines 104-121: next item of the zip, the is_cancelled test, the prompt,
\* entry into generate_and_save_image
ai_loop_head ==
    /\ ai_pc = "loop"
    /\ IF seg_i >= LoopLength
          THEN /\ ai_pc' = "metadata"
               /\ UNCHANGED <<cancel_seen, callVars>>
       ELSE IF is_cancelled
          THEN /\ ai_pc' = "metadata"
               /\ cancel_seen' = TRUE
               /\ UNCHANGED callVars
          ELSE /\ CallStart
               /\ UNCHANGED cancel_seen
    /\ UNCHANGED <<is_cancelled, ai_finished_sig, ai_error, ext_calls,
                   aiInputs, seg_i, generated_images, failed_segs,
                   loop_entered, progress, aiDisk>>
    /\ UNCHANGED <<guiVars, credVars, envVars, brollVars>>

SegmentSucceeded_ByPosition ==
    LET k == Len(generated_images)
        timestamp == timestamps[k + 1]
        dur == IF k < Len(timestamps) - 1
                  THEN RatSub(timestamps[k + 2], timestamp)
                  ELSE RatSub(Rat(duration, 1), timestamp)
    IN /\ generated_images' = Append(generated_images,
                                 [path |-> seg_i + 1, timestamp |-> timestamp,
                                  duration |-> dur])
       /\ seg_i' = seg_i + 1
       /\ progress' = ((seg_i + 1) * 100) \div ai_params.image_count
       /\ ai_pc' = "loop"
       /\ UNCHANGED failed_segs

\* lines 127-139: the call returned an image path
SegmentSucceeded ==
    LET timestamp == timestamps[seg_i + 1]
        dur == IF seg_i < Len(timestamps) - 1
                  THEN RatSub(timestamps[seg_i + 2], timestamp)
                  ELSE RatSub(Rat(duration, 1), timestamp)
    IN /\ generated_images' = Append(generated_images,
                                 [path |-> seg_i + 1, timestamp |-> timestamp,
                                  duration |-> dur])
       /\ seg_i' = seg_i + 1
       /\ progress' = ((seg_i + 1) * 100) \div ai_params.image_count
       /\ ai_pc' = "loop"
       /\ UNCHANGED failed_segs

SegmentFailed_Abort ==
    /\ failed_segs' = failed_segs \cup {seg_i + 1}
    /\ seg_i' = seg_i + 1
    /\ ai_pc' = "metadata"
    /\ UNCHANGED <<generated_images, progress>>

\* lines 134-136: the call raised; status message, continue
SegmentFailed ==
    /\ failed_segs' = failed_segs \cup {seg_i + 1}
    /\ seg_i' = seg_i + 1
    /\ ai_pc' = "loop"
    /\ UNCHANGED <<generated_images, progress>>

\* one iteration of the retry loop of generate_and_save_image up to its
\* return, raise or sleep (openai_generator.py lines 68-118)
ai_attempt ==
    /\ ai_pc = "attempt"
    /\ calls' = calls + 1
    /\ ext_calls' = ext_calls \cup {"image_request"}
    /\ \E ok \in BOOLEAN, stage \in Stages, rate \in BOOLEAN :
         IF ok
            THEN /\ image_files' = image_files \cup {seg_i + 1}
                 /\ prompt_files' = prompt_files \cup {seg_i + 1}
                 /\ call_result' = "returned"
                 /\ SegmentSucceeded
                 /\ UNCHANGED <<attempt, delays, wait_time, errs, raised>>
            ELSE LET e == AttemptError(attempt + 1, rate)
                 IN /\ errs' = Append(errs, e)
                    /\ image_files' = IF stage = "prompt_write"
                                         THEN image_files \cup {seg_i + 1}
                                         ELSE image_files
                    /\ UNCHANGED prompt_files
                    /\ IF ReRaises(attempt, rate)
                          THEN /\ raised' = e
                               /\ call_result' = "raised"
                               /\ SegmentFailed
                               /\ UNCHANGED <<attempt, delays, wait_time>>
                          ELSE /\ wait_time' = BackoffDelay(attempt, rate)
                               /\ ai_pc' = "sleep"
                               /\ UNCHANGED <<attempt, delays, raised,
                                              call_result, seg_i,
                                              generated_images, failed_segs,
                                              progress>>
    /\ UNCHANGED <<is_cancelled, ai_finished_sig, ai_error, aiInputs,
                   cancel_seen, loop_entered, metadata_writes, metadata,
                   final_video, clip_files>>
    /\ UNCHANGED <<guiVars, credVars, envVars, brollVars>>

\* time.sleep(wait_time) returns; next iteration of the retry loop, or the
\* loop is exhausted and line 120 raises
ai_sleep ==
    /\ ai_pc = "sleep"
    /\ delays' = Append(delays, wait_time)
    /\ IF HasNextAttempt(attempt)
          THEN /\ attempt' = attempt + 1
               /\ ai_pc' = "attempt"
               /\ UNCHANGED <<raised, call_result, seg_i, generated_images,
                              failed_segs, progress>>
          ELSE /\ raised' = AllRetriesError
               /\ call_result' = "raised"
               /\ SegmentFailed
               /\ UNCHANGED attempt
    /\ UNCHANGED <<calls, wait_time, errs>>
    /\ UNCHANGED <<is_cancelled, ai_finished_sig, ai_error, ext_calls,
                   aiInputs, cancel_seen, loop_entered, aiDisk>>
    /\ UNCHANGED <<guiVars, credVars, envVars, brollVars>>

ai_save_metadata_SkipWhenEmpty ==
    /\ ai_pc = "metadata"
    /\ IF generated_images = <<>>
          THEN UNCHANGED <<metadata_writes, metadata>>
          ELSE /\ metadata_writes' = metadata_writes + 1
               /\ metadata' = [images |-> generated_images,
                               total_duration |-> duration]
    /\ ai_pc' = "export_clips"
    /\ UNCHANGED <<is_cancelled, ai_finished_sig, ai_error, ext_calls,
                   aiInputs, aiLoop, image_files, prompt_files,
                   final_video, clip_files>>
    /\ UNCHANGED <<guiVars, credVars, envVars, callVars, brollVars>>

\* lines 141-152: json.dump of the session into generation_metadata.json
ai_save_metadata ==
    /\ ai_pc = "metadata"
    /\ metadata_writes' = metadata_writes + 1
    /\ metadata' = [images |-> generated_images, total_duration |-> duration]
    /\ ai_pc' = "export_clips"
    /\ UNCHANGED <<is_cancelled, ai_finished_sig, ai_error, ext_calls,
                   aiInputs, aiLoop, image_files, prompt_files,
                   final_video, clip_files>>
    /\ UNCHANGED <<guiVars, credVars, envVars, callVars, brollVars>>

\* the files images_to_clips has written once it has exported the first n
\* items of image_data: item number j (1-based, the enumerate index plus one)
\* goes to scene_{j:03d}.mp4 (video_processor.py line 158)
clips_written(image_data, n) ==
    {[clip |-> j, scene |-> image_data[j].path] : j \in 1..n}

ai_export_clips_Cleanup ==
    /\ ai_pc = "export_clips"
    /\ IF ~ai_params.clips \/ generated_images = <<>>
          THEN /\ ai_pc' = "export_video"
               /\ UNCHANGED <<ai_error, ext_calls, clip_files, image_files,
                              prompt_files>>
          ELSE \E fail_at \in 0..Len(generated_images) :
                 /\ ext_calls' = ext_calls \cup {"encoder"}
                 /\ IF fail_at = 0
                       THEN /\ clip_files' = clips_written(generated_images,
                                                Len(generated_images))
                            /\ ai_pc' = "export_video"
                            /\ UNCHANGED <<ai_error, image_files,
                                           prompt_files>>
                       ELSE /\ clip_files' = {}
                            /\ image_files' = {}
                            /\ prompt_files' = {}
                            /\ AiRaise("EncodingFailed")
    /\ UNCHANGED <<is_cancelled, ai_finished_sig, aiInputs, aiLoop,
                   metadata_writes, metadata, final_video>>
    /\ UNCHANGED <<guiVars, credVars, envVars, callVars, brollVars>>

\* lines 157-159: video_proc.images_to_clips when the option is set. The
\* clips are written one after the other; write_videofile of clip fail_at
\* raises (fail_at = 0: none does), and the clips before it stay on disk.
ai_export_clips ==
    /\ ai_pc = "export_clips"
    /\ IF ~ai_params.clips \/ generated_images = <<>>
          THEN /\ ai_pc' = "export_video"
               /\ UNCHANGED <<ai_error, ext_calls, clip_files>>
          ELSE \E fail_at \in 0..Len(generated_images) :
                 /\ ext_calls' = ext_calls \cup {"encoder"}
                 /\ IF fail_at = 0
                       THEN /\ clip_files' = clips_written(generated_images,
                                                Len(generated_images))
                            /\ ai_pc' = "export_video"
                            /\ UNCHANGED ai_error
                       ELSE /\ clip_files' = clips_written(generated_images,
                                                fail_at - 1)
                            /\ AiRaise("EncodingFailed")
    /\ UNCHANGED <<is_cancelled, ai_finished_sig, aiInputs, aiLoop,
                   metadata_writes, metadata, image_files, prompt_files,
                   final_video>>
    /\ UNCHANGED <<guiVars, credVars, envVars, callVars, brollVars>>

\* ------------------------------------------------------ VideoProcessor
\* final_video.duration after concatenate_videoclips: the clips' durations
\* added up, from clip k on
RECURSIVE SumDurations(_, _)
SumDurations(image_data, k) ==
    IF k > Len(image_data) THEN RatZero
    ELSE RatAdd(image_data[k].duration, SumDurations(image_data, k + 1))

synced_duration_TruncateOnly(image_data, total_duration) ==
    LET d == SumDurations(image_data, 1)
    IN IF RatLt(total_duration, d) THEN total_duration ELSE d

\* create_full_video lines 198-210: the length of final_video once it has
\* been matched to the audio's duration
synced_duration(image_data, total_duration) ==
    LET d == SumDurations(image_data, 1)
    IN IF RatLt(total_duration, d)
          THEN total_duration                          \* subclip(0, total)
       ELSE IF RatLt(d, total_duration)
          THEN RatAdd(d, RatSub(total_duration, d))    \* held last frame
       ELSE d

\* lines 161-169: video_proc.create_full_video when the option is set.
\* create_full_video loads the audio (AudioFileClip), makes one ImageClip
\* per artifact, concatenates them (the library raises on an empty list),
\* matches the length to the audio and exports.
ai_export_full_video ==
    /\ ai_pc = "export_video"
    /\ IF ~ai_params.full_video
          THEN /\ ai_pc' = "finally"
               /\ UNCHANGED <<ai_error, ext_calls, final_video>>
          ELSE \E audio_ok \in BOOLEAN, encoder_ok \in BOOLEAN,
                  audio_d \in 0..MaxDuration :
                 IF ~audio_ok
                    THEN /\ ext_calls' = ext_calls \cup {"audio_load"}
                         /\ AiRaise("AudioLoadFailed")
                         /\ UNCHANGED final_video
                 ELSE IF generated_images = <<>>
                    THEN /\ ext_calls' = ext_calls \cup {"audio_load"}
                         /\ AiRaise("ConcatenateError")
                         /\ UNCHANGED final_video
                 ELSE /\ ext_calls' = ext_calls \cup {"audio_load", "encoder"}
                      /\ IF encoder_ok
                            THEN /\ final_video' =
                                      [written |-> TRUE,
                                       length |-> synced_duration(
                                           generated_images, Rat(audio_d, 1)),
                                       audio |-> audio_d]
                                 /\ ai_pc' = "finally"
                                 /\ UNCHANGED ai_error
                            ELSE /\ AiRaise("EncodingFailed")
                                 /\ UNCHANGED final_video
    /\ UNCHANGED <<is_cancelled, ai_finished_sig, aiInputs, aiLoop,
                   metadata_writes, metadata, image_files, prompt_files,
                   clip_files>>
    /\ UNCHANGED <<guiVars, credVars, envVars, callVars, brollVars>>

\* ProcessingThread.run, finally: finished_processing.emit(); run returns.
\* Nothing in the program refers to the finished run again (its locals, its
\* params, its session directory), so the model stops tracking them here.
ai_finally ==
    /\ ai_pc = "finally"
    /\ ai_finished_sig' = TRUE
    /\ ai_pc' = "done"
    /\ ai_params' = NoParams
    /\ ai_error' = "none"
    /\ AiLocalsReset
    /\ AiDiskReset
    /\ CallReset
    /\ UNCHANGED <<is_cancelled, ext_calls>>
    /\ UNCHANGED <<guiVars, credVars, envVars, brollVars>>

\* ------------------------------------- ProcessingThread.process_broll
\* the orderings random.shuffle can leave a list in
Shuffles(s) ==
    {t \in [1..Len(s) -> {s[j] : j \in 1..Len(s)}] :
        \E p \in [1..Len(s) -> 1..Len(s)] :
            /\ \A a, b \in 1..Len(s) : p[a] = p[b] => a = b
            /\ \A j \in 1..Len(s) : t[j] = s[p[j]]}

\* the clips of s at the positions in keep, in order
RECURSIVE KeepPositions(_, _, _)
KeepPositions(s, keep, j) ==
    IF j > Len(s) THEN <<>>
    ELSE (IF j \in keep THEN <<s[j]>> ELSE <<>>) \o KeepPositions(s, keep, j + 1)

\* lines 172-189: the processors are constructed (AudioProcessor() runs
\* "ffmpeg -version"), then the voiceover's duration is taken if asked for
broll_start_in(Files) ==
    /\ broll_pc = "start"
    /\ IF broll_params.sync_duration /\ broll_params.voiceover
          THEN \E f \in Files, decoder_ok \in BOOLEAN :
                 LET gd == get_duration(f, ffmpeg_present, decoder_ok)
                 IN /\ broll_ext' = {"ffmpeg_probe"} \cup
                          (IF gd.decoder THEN {"decoder"} ELSE {})
                    /\ IF gd.raised # "none"
                          THEN broll_error' = gd.raised /\ broll_pc' = "finally"
                          ELSE broll_pc' = "concat" /\ UNCHANGED broll_error
          ELSE /\ broll_ext' = {"ffmpeg_probe"}
               /\ broll_pc' = "concat"
               /\ UNCHANGED broll_error
    /\ UNCHANGED <<broll_params, broll_finished_sig, broll_output,
                   concat_path, overlay_input>>
    /\ UNCHANGED <<guiVars, credVars, envVars, aiRunVars, callVars>>

broll_start == broll_start_in(AudioFiles)

\* _ensure_writable_path(path): path itself when a test file can be written
\* next to it, else a file of the same name in a new temporary directory
ensure_writable_path(path, writable) ==
    IF writable THEN path ELSE "fallback"

\* the path concatenate_clips exports to: _concatenate_with_ffmpeg (more
\* than 10 clips) writes output_path, _concatenate_with_moviepy writes
\* _ensure_writable_path(output_path)
export_path(video_paths, output_path, writable) ==
    IF Len(video_paths) > FfmpegClipThreshold
       THEN output_path
       ELSE ensure_writable_path(output_path, writable)

\* lines 191-217: shuffle, concatenate_clips (each clip is loaded; clips
\* that cannot be loaded are skipped), export
broll_concatenate ==
    /\ broll_pc = "concat"
    /\ \E shuffled_broll \in Shuffles(broll_params.broll_paths),
          encoder_ok \in BOOLEAN, writable \in BOOLEAN :
         LET all_clips == broll_params.intro_paths \o shuffled_broll
             loads == IF all_clips = <<>> THEN {} ELSE {"clip_load"}
         IN \E loaded \in SUBSET (1..Len(all_clips)) :
              LET clips == KeepPositions(all_clips, loaded, 1)
              IN IF clips = <<>>
                    THEN /\ broll_error' = "No valid video clips to concatenate"
                         /\ broll_pc' = "finally"
                         /\ broll_ext' = broll_ext \cup loads
                         /\ UNCHANGED <<broll_output, concat_path>>
                 ELSE IF ~encoder_ok
                    THEN /\ broll_error' = "EncodingFailed"
                         /\ broll_pc' = "finally"
                         /\ broll_ext' = broll_ext \cup loads \cup {"encoder"}
                         /\ UNCHANGED <<broll_output, concat_path>>
                 ELSE /\ broll_output' = clips
                      /\ concat_path' = export_path(all_clips, "requested",
                                                    writable)
                      /\ broll_pc' = "overlay"
                      /\ broll_ext' = broll_ext \cup loads \cup {"encoder"}
                      /\ UNCHANGED broll_error
    /\ UNCHANGED <<broll_params, broll_finished_sig, overlay_input>>
    /\ UNCHANGED <<guiVars, credVars, envVars, aiRunVars, callVars>>

\* lines 219-228: add_audio_to_video(output_path, voiceover_path,
\* final_path) runs ffmpeg with check=True; ffmpeg fails when its input
\* video does not exist (the session directory is new, so the only file at
\* the requested path is the one the concatenation wrote there)
broll_overlay ==
    /\ broll_pc = "overlay"
    /\ IF broll_params.overlay_audio /\ broll_params.voiceover
          THEN \E encoder_ok \in BOOLEAN :
                 /\ overlay_input' = "requested"
                 /\ broll_error' = IF encoder_ok /\ concat_path = "requested"
                                      THEN broll_error
                                      ELSE "CalledProcessError"
                 /\ broll_ext' = broll_ext \cup {"encoder"}
          ELSE UNCHANGED <<broll_error, broll_ext, overlay_input>>
    /\ broll_pc' = "finally"
    /\ UNCHANGED <<broll_params, broll_finished_sig, broll_output,
                   concat_path>>
    /\ UNCHANGED <<guiVars, credVars, envVars, aiRunVars, callVars>>

\* ProcessingThread.run, finally (the finished run is no longer tracked)
broll_finally ==
    /\ broll_pc = "finally"
    /\ broll_finished_sig' = TRUE
    /\ broll_pc' = "done"
    /\ broll_params' = NoBrollParams
    /\ broll_error' = "none"
    /\ broll_output' = <<>>
    /\ broll_ext' = {}
    /\ concat_path' = "none"
    /\ overlay_input' = "none"
    /\ UNCHANGED <<guiVars, credVars, envVars, aiRunVars, callVars>>

\* -------------------------------------------------------- specifications
\* the image-generation run: the Generate/Cancel handlers and the worker
Next ==
    \/ choose_script_file
    \/ choose_voiceover_file
    \/ generate_images
    \/ cancel_generation
    \/ ai_generation_finished
    \/ ai_init
    \/ ai_analyze
    \/ ai_loop_head
    \/ ai_attempt
    \/ ai_sleep
    \/ ai_save_metadata
    \/ ai_export_clips
    \/ ai_export_full_video
    \/ ai_finally

Spec == Init /\ [][Next]_vars

\* the whole application, both tabs, on one-segment runs
OneSegment == {[ok |-> TRUE, n |-> 1]}
OneSecondFiles ==
    {f \in AudioFiles : /\ f.ext = "m4a"
                        /\ f.wav_d = NoHeader
                        /\ f.dec_d = 1
                        /\ f.size \in {Unreadable, 1}}

NextApp ==
    \/ choose_script_file
    \/ choose_voiceover_file
    \/ choose_broll_files_in({<<1>>})
    \/ choose_intro_files
    \/ generate_images_in(OneSegment)
    \/ cancel_generation
    \/ ai_generation_finished
    \/ reorganize_broll
    \/ broll_finished
    \/ ai_init
    \/ ai_analyze_in({1}, OneSecondFiles)
    \/ ai_loop_head
    \/ ai_attempt
    \/ ai_sleep
    \/ ai_save_metadata
    \/ ai_export_clips
    \/ ai_export_full_video
    \/ ai_finally
    \/ broll_start_in(OneSecondFiles)
    \/ broll_concatenate
    \/ broll_overlay
    \/ broll_finally

SpecApp == Init /\ [][NextApp]_vars

\* one image-generation run of one segment at a time, with its window. The
\* worker is a thread of its own: the step it is at is taken sooner or
\* later (the calls it waits in, time.sleep and the collaborators, return
\* or raise). The window's event loop delivers a queued finished_processing
\* signal to its slot sooner or later.
ai_run ==
    \/ ai_init
    \/ ai_analyze_in({1}, OneSecondFiles)
    \/ ai_loop_head
    \/ ai_attempt
    \/ ai_sleep
    \/ ai_save_metadata
    \/ ai_export_clips
    \/ ai_export_full_video
    \/ ai_finally

NextLive ==
    \/ choose_script_file
    \/ choose_voiceover_file
    \/ generate_images_in(OneSegment)
    \/ cancel_generation
    \/ ai_generation_finished
    \/ ai_run

SpecLive ==
    /\ Init
    /\ [][NextLive]_vars
    /\ WF_vars(ai_run)
    /\ WF_vars(ai_generation_finished)

\* ProcessingThread("ai_images", params) constructed and started by a caller
\* of the class: nothing between __init__ and process_ai_images looks at
\* the params
thread_start_in(Counts) ==
    /\ ~AiRunning
    /\ \E n \in Counts, clips \in BOOLEAN, full_video \in BOOLEAN :
         ai_params' = [image_count |-> n, clips |-> clips,
                       full_video |-> full_video]
    /\ ai_pc' = "start"
    /\ is_cancelled' = FALSE
    /\ ai_finished_sig' = FALSE
    /\ ai_error' = "none"
    /\ ext_calls' = {}
    /\ AiLocalsReset
    /\ AiDiskReset
    /\ CallReset
    /\ UNCHANGED <<guiVars, credVars, envVars, brollVars>>

\* ProcessingThread.cancel called by that caller
thread_cancel ==
    /\ AiRunning
    /\ is_cancelled' = TRUE
    /\ UNCHANGED <<ai_pc, ai_finished_sig, ai_error, ext_calls, aiInputs,
                   aiLoop, aiDisk>>
    /\ UNCHANGED <<guiVars, credVars, envVars, callVars, brollVars>>

\* the worker alone, driven by a caller of the class
RunCounts == (-1)..1

NextRun ==
    \/ thread_start_in(RunCounts)
    \/ thread_cancel
    \/ ai_init
    \/ ai_analyze
    \/ ai_loop_head
    \/ ai_attempt
    \/ ai_sleep
    \/ ai_save_metadata
    \/ ai_export_clips
    \/ ai_export_full_video
    \/ ai_finally

SpecRun == Init /\ [][NextRun]_vars


\* ProcessingThread("broll", params) constructed and started by a caller of
\* the class: process_broll takes the lists as they are given
broll_thread_start ==
    /\ ~BrollRunning
    /\ \E bp \in {<<>>} \cup BrollChoices, ip \in {<<>>} \cup IntroChoices,
          voiceover \in BOOLEAN, sync_duration \in BOOLEAN,
          overlay_audio \in BOOLEAN :
         broll_params' = [broll_paths |-> bp, intro_paths |-> ip,
                          voiceover |-> voiceover,
                          sync_duration |-> sync_duration,
                          overlay_audio |-> overlay_audio]
    /\ broll_pc' = "start"
    /\ broll_finished_sig' = FALSE
    /\ broll_error' = "none"
    /\ broll_output' = <<>>
    /\ broll_ext' = {}
    /\ concat_path' = "none"
    /\ overlay_input' = "none"
    /\ UNCHANGED <<guiVars, credVars, envVars, aiRunVars, callVars>>

\* the B-roll worker alone, driven by a caller of the class
NextBroll ==
    \/ broll_thread_start
    \/ broll_start
    \/ broll_concatenate
    \/ broll_overlay
    \/ broll_finally

SpecBroll == Init /\ [][NextBroll]_vars


\* ------------------------------------------------- functions called alone
\* AudioProcessor.get_duration on any file, with and without a decoder
call_get_duration ==
    /\ \E f \in AudioFiles, ffmpeg_available \in BOOLEAN,
          decoder_ok \in BOOLEAN :
         fn_call' = [op |-> "get_duration",
                     args |-> [f |-> f, ffmpeg_available |-> ffmpeg_available,
                               decoder_ok |-> decoder_ok],
                     out |-> get_duration(f, ffmpeg_available, decoder_ok)]
    /\ UNCHANGED <<guiVars, credVars, ffmpeg_present, aiRunVars, callVars,
                   brollVars>>

\* ProcessingThread._split_script on any script and any positive count
call_split_script ==
    /\ \E nwords \in 0..MaxScriptWords, num_segments \in 1..MaxSplit :
         fn_call' = [op |-> "split_script",
                     args |-> [nwords |-> nwords,
                               num_segments |-> num_segments],
                     out |-> split_script(nwords, num_segments)]
    /\ UNCHANGED <<guiVars, credVars, ffmpeg_present, aiRunVars, callVars,
                   brollVars>>

NextFn ==
    \/ call_get_duration
    \/ call_split_script

SpecFn == Init /\ [][NextFn]_vars

\* ------------------------------------------------ APIKeyManager called alone
\* the stores as any earlier use of the machine may have left them
InitCred ==
    /\ keyring_key \in {NoKey} \cup Keys
    /\ file_key \in {NoKey} \cup Keys
    /\ env_key \in {NoKey} \cup Keys
    /\ InitRest

\* the key of the latest set_api_key call that returned True
LastStored ==
    IF fn_call.op = "set_api_key"
       THEN (IF fn_call.out THEN fn_call.args.api_key ELSE fn_call.args.after)
    ELSE IF fn_call.op = "get_api_key" THEN fn_call.args.after
    ELSE NoKey

\* APIKeyManager.set_api_key(api_key): the keyring, else the encrypted file
call_set_api_key ==
    /\ \E api_key \in Keys, keyring_ok \in BOOLEAN, file_ok \in BOOLEAN :
         /\ IF keyring_ok
               THEN keyring_key' = api_key /\ UNCHANGED file_key
               ELSE /\ file_key' = IF file_ok THEN api_key ELSE file_key
                    /\ UNCHANGED keyring_key
         /\ fn_call' = [op |-> "set_api_key",
                        args |-> [api_key |-> api_key,
                                  keyring_ok |-> keyring_ok,
                                  file_ok |-> file_ok, after |-> LastStored],
                        out |-> keyring_ok \/ file_ok]
    /\ UNCHANGED <<env_key, ffmpeg_present>>
    /\ UNCHANGED <<guiVars, aiRunVars, callVars, brollVars>>

\* APIKeyManager.get_api_key()
call_get_api_key ==
    /\ \E keyring_ok \in BOOLEAN, file_ok \in BOOLEAN :
         fn_call' = [op |-> "get_api_key",
                     args |-> [keyring_ok |-> keyring_ok, file_ok |-> file_ok,
                               after |-> LastStored],
                     out |-> get_api_key_from(keyring_ok, file_ok)]
    /\ UNCHANGED <<credVars, ffmpeg_present>>
    /\ UNCHANGED <<guiVars, aiRunVars, callVars, brollVars>>

NextCred ==
    \/ call_set_api_key
    \/ call_get_api_key

SpecCred == InitCred /\ [][NextCred]_vars



TypeOK ==
    /\ ai_pc \in {"idle", "start", "analyze", "loop", "attempt", "sleep",
                  "metadata", "export_clips", "export_video", "finally", "done"}
    /\ broll_pc \in {"idle", "start", "concat", "overlay", "finally", "done"}
    /\ calls \in 0..max_retries
    /\ seg_i \in 0..MaxSegments
    /\ ext_calls \subseteq {"ffmpeg_probe", "decoder", "image_request", "encoder",
                            "audio_load"}

\* ----------------------------------------------------------------- claims
AfterLoop == {"metadata", "export_clips", "export_video", "finally"}
InLoop == {"loop", "attempt", "sleep"}

\* the paths (scene numbers) of a list of artifacts
Paths(imgs) == [j \in 1..Len(imgs) |-> imgs[j].path]

\* the scenes k..n that are not in skip, in increasing order
RECURSIVE ScenesExcept(_, _, _)
ScenesExcept(k, n, skip) ==
    IF k > n THEN <<>>
    ELSE (IF k \in skip THEN <<>> ELSE <<k>>) \o ScenesExcept(k + 1, n, skip)

\* C1: a segment's call raises only after max_retries failed attempts; at
\* every point of the loop the artifacts are exactly the scenes handled so
\* far whose call did not raise, in order; and unless the loop was left by
\* the cancellation break, every segment has been handled when it ends.
C1_PartialFailure ==
    /\ call_result = "raised" => Len(errs) = 3
    /\ call_result = "returned" => Len(errs) < 3
    /\ (loop_entered /\ ai_pc \in InLoop \cup AfterLoop) =>
          /\ failed_segs \subseteq 1..seg_i
          /\ Paths(generated_images) = ScenesExcept(1, seg_i, failed_segs)
    /\ (loop_entered /\ ai_pc \in AfterLoop /\ ~cancel_seen) =>
          /\ seg_i = ai_params.image_count
          /\ Paths(generated_images) =
                ScenesExcept(1, ai_params.image_count, failed_segs)

\* a run of three segments where only the second failed
C1_Witness ==
    /\ ai_pc = "finally"
    /\ ai_params.image_count = 3
    /\ failed_segs = {2}
    /\ Paths(generated_images) = <<1, 3>>

\* C2: within one generate_and_save_image call the image collaborator is
\* invoked at most 3 times, and after the third failed attempt the call is
\* never again about to invoke it.
C2_RetryBudget ==
    /\ calls <= 3
    /\ Len(errs) <= 3
    /\ (ai_pc = "attempt" /\ call_result = "running") => Len(errs) < 3

\* three failed attempts of mixed classification
C2_Witness ==
    /\ call_result = "raised"
    /\ calls = 3
    /\ Len(errs) = 3
    /\ errs[1].rate /\ ~errs[2].rate /\ ~errs[3].rate

\* C3: the sleep after failed attempt k < 3 is min(30k, 120) seconds when
\* that attempt's failure is rate-limit classified, 5 seconds otherwise.
C3_BackoffAmounts ==
    /\ (ai_pc = "sleep" /\ Len(errs) < 3) =>
          wait_time = IF errs[Len(errs)].rate
                         THEN Min(30 * Len(errs), 120) ELSE 5
    /\ \A k \in 1..Len(delays) :
          k < 3 => delays[k] = IF errs[k].rate THEN Min(30 * k, 120) ELSE 5

\* a fixed delay after the first failure, a rate-limit delay after the second
C3_Witness ==
    /\ Len(delays) = 2
    /\ delays[1] = 5
    /\ delays[2] = 60
    /\ ai_pc = "attempt"

TwoRateLimitFailures ==
    /\ Len(errs) = 2
    /\ errs[1].rate
    /\ errs[2].rate

\* C4: after two rate-limit failures the call makes a third attempt; when
\* that attempt succeeds the call has invoked the collaborator exactly 3
\* times, the segment has exactly one artifact, and the second delay is at
\* least the first.
C4_RetryThenSuccess ==
    /\ [](call_result = "returned" /\ TwoRateLimitFailures =>
            /\ calls = 3
            /\ Len(delays) = 2
            /\ delays[2] >= delays[1]
            /\ Cardinality({j \in 1..Len(generated_images) :
                              generated_images[j].path = seg_i}) = 1)
    /\ [][(ai_pc = "sleep" /\ TwoRateLimitFailures /\ ai_pc' # "sleep") =>
            (ai_pc' = "attempt" /\ calls' = calls /\ seg_i' = seg_i)]_vars

C4_Witness ==
    /\ call_result = "returned"
    /\ TwoRateLimitFailures
    /\ calls = 3
    /\ delays = <<30, 60>>
    /\ Paths(generated_images) = <<1>>

\* C5: when a call ends after three failed attempts, the exception leaving
\* generate_and_save_image is the one raised by the third attempt.
C5_LastErrorPropagates ==
    call_result = "raised" => raised = errs[Len(errs)]

\* C6: no metadata file is written before the loop has ended; once the
\* loop has ended the file has been written exactly once and its images
\* list is the artifact list.
C6_MetadataOnce ==
    /\ ai_pc \in {"start", "analyze", "loop", "attempt", "sleep", "metadata"} =>
          metadata_writes = 0
    /\ (loop_entered /\ ai_pc \in {"export_clips", "export_video", "finally"}) =>
          /\ metadata_writes = 1
          /\ metadata.images = generated_images
          /\ metadata.total_duration = duration

\* a run in which every segment failed still wrote the file
C6_Witness ==
    /\ ai_pc = "finally"
    /\ loop_entered
    /\ failed_segs = {1, 2}
    /\ generated_images = <<>>
    /\ metadata_writes = 1

\* C7: with the flag set, an iteration that begins makes no call and leaves
\* the loop; a call in flight goes on (its attempt is made, its sleep is
\* followed by the next attempt while attempts remain); the flag stays set
\* while the run lasts.
C7_CooperativeCancel ==
    [][/\ (ai_pc = "loop" /\ is_cancelled /\ ai_pc' # "loop") =>
             (ai_pc' = "metadata" /\ UNCHANGED <<calls, call_result, seg_i>>)
       /\ (ai_pc = "attempt" /\ is_cancelled /\ ai_pc' # "attempt") =>
             (ai_pc' \in {"sleep", "loop"} /\ calls' = calls + 1)
       /\ (ai_pc = "sleep" /\ is_cancelled /\ ai_pc' # "sleep") =>
             (IF attempt + 1 < 3 THEN ai_pc' = "attempt" ELSE ai_pc' = "loop")
       /\ (is_cancelled /\ AiRunning /\ AiRunning') => is_cancelled'
      ]_vars

\* cancelled during the first segment's call, which still retried twice and
\* returned; the second segment was never started
C7_Witness ==
    /\ cancel_seen
    /\ ai_pc = "metadata"
    /\ seg_i = 1
    /\ ai_params.image_count = 2
    /\ call_result = "returned"
    /\ calls = 3

\* C8: at most one background task is running.
C8_OneTaskAtATime == ~(AiRunning /\ BrollRunning)

\* C9: for a positive duration D and n segments, generate_timestamps gives
\* n timestamps, the first 0, timestamps[i] = (i-1) * D / n, consecutive
\* ones D / n apart, non-decreasing.
C9_Timestamps ==
    (loop_entered /\ duration > 0) =>
        LET n == ai_params.image_count
        IN /\ n > 0
           /\ Len(timestamps) = n
           /\ RatEq(timestamps[1], RatZero)
           /\ \A i \in 1..n :
                 timestamps[i][1] * n = (i - 1) * duration * timestamps[i][2]
           /\ \A i \in 1..(n - 1) :
                 /\ RatLeq(timestamps[i], timestamps[i + 1])
                 /\ RatEq(RatSub(timestamps[i + 1], timestamps[i]),
                          Rat(duration, n))

\* three segments over two seconds (a step that is no whole number)
C9_Witness ==
    /\ loop_entered
    /\ duration = 2
    /\ Len(timestamps) = 3
    /\ RatEq(timestamps[3], Rat(4, 3))

RECURSIVE JoinFrom(_, _)
JoinFrom(segs, k) ==
    IF k > Len(segs) THEN <<>> ELSE segs[k] \o JoinFrom(segs, k + 1)

\* C11: for W >= 1 words and n >= 1, _split_script returns n segments that
\* joined in order are the word sequence; each of the first n-1 holds
\* floor(W/n) words and the last the remaining W - (n-1)*floor(W/n); n = 1
\* gives the whole text.
C11_SplitScript ==
    (fn_call.op = "split_script" /\ fn_call.args.nwords >= 1) =>
        LET W == fn_call.args.nwords
            n == fn_call.args.num_segments
            out == fn_call.out
            joined == JoinFrom(out, 1)
        IN /\ Len(out) = n
           /\ Len(joined) = W
           /\ \A j \in 1..W : joined[j] = j
           /\ \A k \in 1..(n - 1) : Len(out[k]) = W \div n
           /\ Len(out[n]) = W - (n - 1) * (W \div n)
           /\ n = 1 => Len(out[1]) = W

\* five words in two segments: two words, then three
C11_Witness ==
    /\ fn_call.op = "split_script"
    /\ fn_call.args = [nwords |-> 5, num_segments |-> 2]
    /\ fn_call.out = << <<1, 2>>, <<3, 4, 5>> >>

\* C12: a run whose script has no words makes no image-generation call.
C12_EmptyScriptNoCall ==
    (loop_entered /\ script_words = 0) => "image_request" \notin ext_calls

\* C13: when the script has at least one word, the segment a generation
\* call is made for is never empty.
C13_NonEmptySegments ==
    (ai_pc = "attempt" /\ script_words >= 1) =>
        split_script(script_words, ai_params.image_count)[seg_i + 1] # <<>>

\* C14: the artifact of scene i of N has timestamp timestamps[i] and
\* duration timestamps[i+1] - timestamps[i], or total duration -
\* timestamps[N] for the last scene, whatever other scenes failed.
C14_ArtifactDuration ==
    loop_entered =>
        \A j \in 1..Len(generated_images) :
            LET g == generated_images[j]
                i == g.path
                N == Len(timestamps)
            IN /\ i \in 1..N
               /\ g.timestamp = timestamps[i]
               /\ RatEq(g.duration,
                        IF i < N THEN RatSub(timestamps[i + 1], timestamps[i])
                                 ELSE RatSub(Rat(duration, 1), timestamps[N]))

\* two seconds in three scenes, the first scene failed
C14_Witness ==
    /\ failed_segs = {1}
    /\ duration = 2
    /\ Paths(generated_images) = <<2, 3>>
    /\ RatEq(generated_images[1].timestamp, Rat(2, 3))
    /\ RatEq(generated_images[2].duration, Rat(2, 3))

\* C15: a full video written from a non-empty artifact list has exactly
\* the length of the audio, whether the artifacts' durations add up to
\* more, to less or to the same.
C15_SyncedLength ==
    final_video.written =>
        /\ generated_images # <<>>
        /\ RatEq(final_video.length, Rat(final_video.audio, 1))

\* one artifact of one second (the other scene failed) under two seconds
\* of audio: extended
C15_Witness ==
    /\ final_video.written
    /\ failed_segs # {}
    /\ final_video.audio = 2
    /\ RatEq(SumDurations(generated_images, 1), Rat(1, 1))
    /\ RatEq(final_video.length, Rat(2, 1))

\* C16: when create_full_video fails on an empty artifact list, no media
\* library call (the audio load) has been made.
C16_NoArtifactsFirst ==
    (generated_images = <<>> /\ ai_error = "ConcatenateError") =>
        "audio_load" \notin ext_calls

\* C17: the clip sequence written by a B-roll run is the intro clips in
\* input order followed by a permutation of the B-roll clips.
C17_Playlist ==
    broll_output # <<>> =>
        \E t \in Shuffles(broll_params.broll_paths) :
            broll_output = broll_params.intro_paths \o t

C19_DurationOrder ==
    fn_call.op = "get_duration" =>
        LET f == fn_call.args.f
            out == fn_call.out
            header == f.ext = "wav" /\ f.wav_d # NoHeader
            decoded == fn_call.args.ffmpeg_available /\ fn_call.args.decoder_ok
            sized == f.size # Unreadable
        IN /\ ~f.exists => out.raised = "FileNotFoundError"
           /\ (f.exists /\ header) =>
                 (out.raised = "none" /\ out.method = "wav"
                    /\ out.value = f.wav_d /\ ~out.decoder)
           /\ (f.exists /\ ~header /\ decoded) =>
                 (out.raised = "none" /\ out.method = "decoder"
                    /\ out.value = f.dec_d)
           /\ (f.exists /\ ~header /\ ~decoded /\ sized) =>
                 (out.raised = "none" /\ out.method = "estimate")
           /\ (f.exists /\ ~header /\ ~decoded /\ ~sized) =>
                 out.raised = "RuntimeError"
           /\ out.decoder => fn_call.args.ffmpeg_available

\* a .wav with a readable header and a working decoder that would give
\* another value: the header's value is returned
C19_Witness ==
    /\ fn_call.op = "get_duration"
    /\ fn_call.args.f.exists
    /\ fn_call.args.f.ext = "wav"
    /\ fn_call.args.f.wav_d = 1
    /\ fn_call.args.f.dec_d = 2
    /\ fn_call.args.ffmpeg_available
    /\ fn_call.args.decoder_ok
    /\ fn_call.out.value = 1

\* an existing file of readable size that neither the header nor the
\* decoder gives a duration for
DegradedCall ==
    /\ fn_call.op = "get_duration"
    /\ fn_call.args.f.exists
    /\ fn_call.args.f.size # Unreadable
    /\ ~(fn_call.args.f.ext = "wav" /\ fn_call.args.f.wav_d # NoHeader)
    /\ ~(fn_call.args.ffmpeg_available /\ fn_call.args.decoder_ok)

\* size * 8 = value * bitrate, with 256 kbps for .m4a and 128 kbps otherwise
EstimateOf(f, value) ==
    f.size * SizeUnit * 8 =
        value * (IF f.ext = "m4a" THEN 256000 ELSE 128000)

\* C20 as stated: in the degraded case get_duration does not raise and
\* returns a positive value equal to the size estimate.
C20_PositiveEstimate ==
    DegradedCall =>
        /\ fn_call.out.raised = "none"
        /\ fn_call.out.value > 0
        /\ EstimateOf(fn_call.args.f, fn_call.out.value)

\* C20 amended: in the degraded case get_duration does not raise and
\* returns the size estimate, which is positive exactly when the file is
\* not empty and 0 for an empty file.
C20_DegradedEstimate ==
    DegradedCall =>
        /\ fn_call.out.raised = "none"
        /\ EstimateOf(fn_call.args.f, fn_call.out.value)
        /\ fn_call.out.value >= 0
        /\ fn_call.out.value > 0 <=> fn_call.args.f.size > 0

\* an .m4a of one size unit without ffmpeg: one second
C20_Witness ==
    /\ DegradedCall
    /\ fn_call.args.f.ext = "m4a"
    /\ fn_call.args.f.size = 1
    /\ ~fn_call.args.ffmpeg_available
    /\ fn_call.out.value = 1

\* C21: get_api_key returns the first non-empty credential of the keyring,
\* the encrypted file and the environment variable, in that order; a
\* source that fails counts as empty; None only when all three give
\* nothing.
C21_LookupOrder ==
    fn_call.op = "get_api_key" =>
        LET a == IF fn_call.args.keyring_ok THEN keyring_key ELSE NoKey
            b == IF fn_call.args.file_ok THEN file_key ELSE NoKey
            c == env_key
            out == fn_call.out
        IN /\ a # NoKey => out = a
           /\ (a = NoKey /\ b # NoKey) => out = b
           /\ (a = NoKey /\ b = NoKey) => out = c
           /\ out = NoKey <=> (a = NoKey /\ b = NoKey /\ c = NoKey)

\* the keyring holds a key but fails; the file's key is returned, not the
\* environment's
C21_Witness ==
    /\ fn_call.op = "get_api_key"
    /\ ~fn_call.args.keyring_ok
    /\ fn_call.args.file_ok
    /\ keyring_key = 1
    /\ file_key = 2
    /\ env_key = 1
    /\ fn_call.out = 2

\* a step taken while the run is in one of its export steps leaves the
\* images, the prompt records and the metadata file as they were
ExportKeepsEarlierOutput ==
    ai_pc \in {"export_clips", "export_video"} =>
        UNCHANGED <<metadata_writes, metadata, image_files, prompt_files>>

\* C22: when the encoder fails during clip export or full-video export the
\* run reports an error (error_occurred carries the failure and the run
\* goes to its finally clause), the metadata file was written before any
\* export started, and the images, prompt records and metadata file written
\* earlier are still there, unchanged: the export steps write nothing but
\* clips and the final video, and delete nothing.
C22_EncoderFailureContained ==
    /\ []((AiRunning /\ "encoder" \in ext_calls) => metadata_writes = 1)
    /\ []((AiRunning /\ ai_error = "EncodingFailed") =>
            /\ ai_pc = "finally"
            /\ metadata_writes = 1
            /\ metadata.images = generated_images
            /\ \A j \in 1..Len(generated_images) :
                 /\ generated_images[j].path \in image_files
                 /\ generated_images[j].path \in prompt_files)
    /\ [][ExportKeepsEarlierOutput]_vars

\* the second of two clips failed to encode: the first clip, both images,
\* both prompt records and the metadata file are on disk
C22_Witness ==
    /\ ai_pc = "finally"
    /\ ai_error = "EncodingFailed"
    /\ Len(generated_images) = 2
    /\ Cardinality(clip_files) = 1
    /\ metadata_writes = 1
    /\ Cardinality(image_files) >= 2
    /\ Cardinality(prompt_files) = 2

\* the steps that emit signals: a run ends only by the step that emits
\* finished_processing, finished_processing is emitted by no other step,
\* and error_occurred is emitted while the run is still going on
FinishedIsLast ==
    /\ (AiRunning /\ ~AiRunning') =>
          (ai_pc = "finally" /\ ~ai_finished_sig /\ ai_finished_sig')
    /\ (~ai_finished_sig /\ ai_finished_sig') => (AiRunning /\ ~AiRunning')
    /\ (ai_error' # ai_error /\ ai_error' # "none") =>
          (AiRunning /\ AiRunning' /\ ~ai_finished_sig')

\* C23: every started run emits finished_processing exactly once, as its
\* last signal, on every exit path (completion, missing key, exception,
\* cancellation), after any error_occurred of the run; so the Generate
\* button disabled at the start is enabled again in the end.
C23_CompletionSignal ==
    /\ [][FinishedIsLast]_vars
    /\ (~generate_btn) ~> generate_btn

\* a cancelled run has ended and emitted finished_processing; the slot
\* that enables the button has not run yet
C23_Witness ==
    /\ ai_pc = "done"
    /\ ai_finished_sig
    /\ is_cancelled
    /\ ~generate_btn

\* C24: generate_and_save_image sleeps only between attempts: whenever a
\* backoff sleep is pending, fewer than max_retries attempts have been made
\* for the segment, so another attempt follows the sleep.
C24_NoTrailingDelay ==
    ai_pc = "sleep" => calls < max_retries

\* C25: an image-generation run that was not cancelled and met no fatal
\* error has emitted the progress value 100 when it emits its completed
\* status, whichever segments were skipped; the emitted values stay within
\* 0..100.
C25_ProgressReaches100 ==
    /\ progress \in 0..100
    /\ (/\ ai_pc = "finally"
        /\ ai_error = "none"
        /\ loop_entered
        /\ ~is_cancelled) => progress = 100

\* C26: once a set_api_key(k) call has returned True, a get_api_key call
\* whose sources all work returns the key of the latest such call.
C26_RoundTrip ==
    (/\ fn_call.op = "get_api_key"
     /\ fn_call.args.keyring_ok
     /\ fn_call.args.file_ok
     /\ fn_call.args.after # NoKey) =>
        fn_call.out = fn_call.args.after

\* C27: in a B-roll run with audio overlay the video given to
\* add_audio_to_video is the file the concatenation wrote, also when the
\* concatenation exported to a fallback temporary path.
C27_OverlayInput ==
    overlay_input # "none" => overlay_input = concat_path

\* C28: the clip made from the image of scene k is written as scene_k.mp4:
\* every clip file's number is the scene number of the image it shows.
C28_ClipNumbering ==
    \A c \in clip_files : c.clip = c.scene

\* the offset at which artifact j starts in the concatenation of the
\* artifacts' clips: the durations of the artifacts before it, added up
OffsetOf(image_data, j) ==
    SumDurations(SubSeq(image_data, 1, j - 1), 1)

\* C29: in the synchronized video every artifact's image starts at the
\* artifact's recorded timestamp, whichever segments were skipped; when
\* none was skipped the artifacts' durations add up to the audio duration
\* the segments were planned with.
C29_TimelineAlignment ==
    (ai_pc = "finally" /\ final_video.written) =>
        /\ \A j \in 1..Len(generated_images) :
             RatEq(OffsetOf(generated_images, j),
                   generated_images[j].timestamp)
        /\ (failed_segs = {} /\ ~cancel_seen) =>
             RatEq(SumDurations(generated_images, 1), Rat(duration, 1))

\* the errors an export step reports
ExportErrors == {"EncodingFailed", "AudioLoadFailed", "ConcatenateError"}

\* C30: a run whose loop ended on the cancellation flag goes on with the
\* steps after the loop: it writes the metadata file with the artifacts it
\* has, exports the clips and the full video that were requested from
\* those artifacts, and ends with the completed status unless an export
\* failed.
C30_CancellationScope ==
    (cancel_seen /\ AiRunning) =>
        /\ ai_pc \in AfterLoop
        /\ ai_pc \in {"export_clips", "export_video", "finally"} =>
             /\ metadata_writes = 1
             /\ metadata.images = generated_images
        /\ (ai_pc \in {"export_video", "finally"} /\ ai_error = "none"
              /\ ai_params.clips) =>
             clip_files = clips_written(generated_images,
                                        Len(generated_images))
        /\ (ai_pc = "finally" /\ ai_error = "none"
              /\ ai_params.full_video) => final_video.written
        /\ (ai_pc = "finally" /\ ai_error # "none") =>
             ai_error \in ExportErrors

\* cancelled after the first of two planned segments: the metadata, the
\* one clip and the full video are all written and no error is reported
C30_Witness ==
    /\ cancel_seen
    /\ ai_pc = "finally"
    /\ ai_error = "none"
    /\ ai_params.image_count = 2
    /\ duration = 2
    /\ Len(generated_images) = 1
    /\ Cardinality(clip_files) = 1
    /\ final_video.written
    /\ metadata_writes = 1

====
